---- MODULE Spec2Model ----
(***************************************************************************)
(* Model of the video ingest handler of src/api/videos.ts                  *)
(* (handlerUploadVideo, getVideoAspectRatio, processVideoForFastStart).    *)
(*                                                                         *)
(* JavaScript runs a handler atomically between two awaits, so every       *)
(* action below is the code from one await to the next.  Strings are TLA+  *)
(* strings, built with \o as the template literals build them.             *)
(***************************************************************************)
EXTENDS Integers, Sequences, FiniteSets, TLC

(* ------------------------------ bounds --------------------------------- *)

\* number of calls of handlerUploadVideo; with more than one, the calls
\* overlap at their awaits in every order
NumIngests == 1

Ingests == 1..NumIngests

(* --------------------------- configuration ----------------------------- *)

\* cfg.s3Bucket and cfg.s3Region: process-wide configuration
cfg == [s3Bucket |-> "tubely", s3Region |-> "us-east-1", port |-> "8091"]

\* const MAX_UPLOAD_SIZE = 1 << 30
MAX_UPLOAD_SIZE == 2^30

(* ------------------------------ strings -------------------------------- *)

HexDigits == "0123456789abcdef"

\* one byte as Buffer.toString('hex') prints it: two lowercase digits
HexByte(b) ==
    SubSeq(HexDigits, (b \div 16) + 1, (b \div 16) + 1)
        \o SubSeq(HexDigits, (b % 16) + 1, (b % 16) + 1)

RECURSIVE toStringHex(_)
\* Buffer.toString('hex')
toStringHex(bytes) ==
    IF bytes = <<>> THEN ""
    ELSE HexByte(Head(bytes)) \o toStringHex(Tail(bytes))

\* randomBytes(n): n bytes.  The draws of a run are pairwise distinct (two
\* draws of 16 or 32 random bytes coincide with probability 2^-128 or less),
\* so a draw is determined by its serial number.
randomBytes(n, serial) == [i \in 1..n |-> (serial * 89 + i * 57) % 256]

\* serial numbers of the two draws of ingest p
TempSerial(p) == 2 * p - 1
KeySerial(p) == 2 * p

RECURSIVE IndexOf(_, _, _)
\* position of the first occurrence of the character c in s at or after i, 0 if none
IndexOf(s, c, i) ==
    IF i > Len(s) THEN 0
    ELSE IF SubSeq(s, i, i) = c THEN i
    ELSE IndexOf(s, c, i + 1)

\* mediaTypeToExt of ./assets: the extension derived from the media type,
\* "." followed by the subtype
mediaTypeToExt(mediaType) ==
    LET slash == IndexOf(mediaType, "/", 1)
    IN  IF slash = 0 THEN ".bin"
        ELSE "." \o SubSeq(mediaType, slash + 1, Len(mediaType))

(* ------------------------------- values -------------------------------- *)

\* a row of the videos table; "" stands for a null column
Video(id, userID, videoURL, thumbnailURL) ==
    [id |-> id, userID |-> userID, videoURL |-> videoURL, thumbnailURL |-> thumbnailURL]

\* what getVideo returns for an id that has no row
NoVideo == Video("", "", "", "")

\* the form's 'video' entry when it is not a File
NoFile == [size |-> -1, type |-> ""]

\* how a block of code completes: it returns a response or throws an error
Return(status, body) == [type |-> "return", name |-> status, msg |-> "", body |-> body]
Throw(name, msg) == [type |-> "throw", name |-> name, msg |-> msg, body |-> NoVideo]
NotFound == Throw("NotFoundError", "Couldn't find video")
Forbidden == Throw("UserForbiddenError", "Not authorized to update this video")
Running == [type |-> "running", name |-> "", msg |-> "", body |-> NoVideo]

\* the content of a file or of an object: which ingest's bytes, in which form
Content(p, form) == [origin |-> p, form |-> form]

(* ------------------------------- inputs -------------------------------- *)

Users == {"alice", "bob"}

\* what validateJWT yields: a user, or it throws
BadToken == "bad-token"

\* the videoId path parameter: absent, a stored video, no stored video
VideoIdParams == {"", "v1", "v0"}

Sizes == {5 * 2^20, MAX_UPLOAD_SIZE, MAX_UPLOAD_SIZE + 1}

MediaTypes == {"video/mp4", "video/webm"}

FormFiles == {NoFile} \cup [size : Sizes, type : MediaTypes]

(* ----------------------- IEEE 754 double arithmetic --------------------- *)
(* A JavaScript number is a double.  A positive finite double is kept as   *)
(* its 53-bit significand m (a sequence of bits, the first one 1) and the  *)
(* exponent e of its last bit: the value is m * 2^e.  The operators are    *)
(* written without recursion: a carry is looked ahead, a remainder of the  *)
(* long division is a power of two modulo the divisor.                     *)

SignificandBits == 53

NaN == [cls |-> "nan", m |-> <<>>, e |-> 0]
Infinity == [cls |-> "inf", m |-> <<>>, e |-> 0]
Zero == [cls |-> "zero", m |-> <<>>, e |-> 0]
Finite(m, e) == [cls |-> "fin", m |-> m, e |-> e]

Zeros(n) == [i \in 1..n |-> 0]

\* the binary digits of a positive integer below 2^30, most significant first
BitsOf(n) ==
    LET len == CHOOSE l \in 1..30 : 2^(l - 1) <= n /\ n < 2^l
    IN  [i \in 1..len |-> (n \div 2^(len - i)) % 2]

\* the carry into position i of a + b (positions count from the most
\* significant bit; position 0 is the carry out of the sum)
Carry(a, b, i) ==
    \E j \in (i + 1)..Len(a) :
        /\ a[j] = 1 /\ b[j] = 1
        /\ \A k \in (i + 1)..(j - 1) : a[k] + b[k] = 1

\* a + b for bit sequences of one length; the result is one bit longer
SumBits(a, b) ==
    [i \in 1..(Len(a) + 1) |->
        IF i = 1 THEN (IF Carry(a, b, 0) THEN 1 ELSE 0)
        ELSE (a[i - 1] + b[i - 1] + (IF Carry(a, b, i - 1) THEN 1 ELSE 0)) % 2]

\* bits without its leading zeros (bits holds a 1)
StripZeros(bits) ==
    LET first == CHOOSE i \in 1..Len(bits) :
                     bits[i] = 1 /\ \A j \in 1..(i - 1) : bits[j] = 0
    IN  SubSeq(bits, first, Len(bits))

\* a + b without leading zeros; the empty sequence is 0
AddBits(a, b) ==
    IF a = <<>> THEN b
    ELSE IF b = <<>> THEN a
    ELSE LET n == IF Len(a) >= Len(b) THEN Len(a) ELSE Len(b)
         IN  StripZeros(SumBits(Zeros(n - Len(a)) \o a, Zeros(n - Len(b)) \o b))

\* bits * 2^i when k has the binary digit 2^i, else 0
Partial(bits, k, i) == IF (k \div 2^i) % 2 = 1 THEN bits \o Zeros(i) ELSE <<>>

\* bits * k for an integer 1 <= k < 32, exactly
MulBits(bits, k) ==
    AddBits(AddBits(AddBits(AddBits(Partial(bits, k, 0), Partial(bits, k, 1)),
                            Partial(bits, k, 2)),
                    Partial(bits, k, 3)),
            Partial(bits, k, 4))

\* rounding to the nearest double, ties to the even significand: the exact
\* value is bits * 2^e plus, when sticky, a positive amount below 2^e
RoundNearestEven(bits, e, sticky) ==
    LET n == Len(bits)
        drop == n - SignificandBits
    IN  IF drop <= 0 THEN Finite(bits \o Zeros(-drop), e + drop)
        ELSE LET kept == SubSeq(bits, 1, SignificandBits)
                 guard == bits[SignificandBits + 1]
                 rest == sticky \/ \E i \in (SignificandBits + 2)..n : bits[i] = 1
                 up == guard = 1 /\ (rest \/ kept[SignificandBits] = 1)
                 inc == SumBits(kept, Zeros(SignificandBits - 1) \o <<1>>)
             IN  IF ~up THEN Finite(kept, e + drop)
                 ELSE IF inc[1] = 1
                      THEN Finite(SubSeq(inc, 1, SignificandBits), e + drop + 1)
                      ELSE Finite(SubSeq(inc, 2, SignificandBits + 1), e + drop)

\* 2^i modulo d, for 0 <= i <= 54 and d * d < 2^31
PowMod(i, d) ==
    IF i <= 27 THEN 2^i % d
    ELSE ((2^(i - 27) % d) * (2^27 % d)) % d

\* the remainder of the long division num / den after i quotient bits
\* beyond the leading one
Remainder(num, den, i) == ((num % den) * PowMod(i, den)) % den

\* a number the probe's JSON can hold is kept as a non-negative integer, or
\* as NotANumber for a value ToNumber turns into NaN
NotANumber == -1

\* the double of a non-negative integer below 2^30 (exact)
FromInt(n) ==
    IF n = NotANumber THEN NaN
    ELSE IF n = 0 THEN Zero
    ELSE LET bits == BitsOf(n)
         IN  Finite(bits \o Zeros(SignificandBits - Len(bits)), Len(bits) - SignificandBits)

\* width / height: the quotient of two integer-valued doubles (below 46341),
\* rounded once
Divide(w, h) ==
    IF w = NotANumber \/ h = NotANumber THEN NaN
    ELSE IF h = 0 THEN (IF w = 0 THEN NaN ELSE Infinity)
    ELSE IF w = 0 THEN Zero
    ELSE LET \* the least power of two that brings w up to h
             up == IF w >= h THEN 0
                   ELSE CHOOSE k \in 1..30 : w * 2^k >= h /\ w * 2^(k - 1) < h
             \* the greatest power of two that keeps h up to w
             down == IF w < h THEN 0
                     ELSE CHOOSE k \in 0..30 : h * 2^k <= w /\ w < h * 2^(k + 1)
             num == w * 2^up
             den == h * 2^down
             \* num / den is in [1, 2): the leading bit is 1, the next ones
             \* are the quotient bits of the long division
             bits == [i \in 1..(SignificandBits + 1) |->
                         IF i = 1 THEN 1
                         ELSE (2 * Remainder(num, den, i - 2)) \div den]
         IN  RoundNearestEven(bits, (down - up) - SignificandBits,
                              Remainder(num, den, SignificandBits) # 0)

\* x * k for a small integer k >= 1, rounded once
Multiply(x, k) ==
    IF x.cls # "fin" THEN x
    ELSE RoundNearestEven(MulBits(x.m, k), x.e, FALSE)

\* Math.floor of a non-negative double
MathFloor(x) ==
    IF x.cls # "fin" \/ x.e >= 0 THEN x
    ELSE IF -x.e >= SignificandBits THEN Zero
    ELSE Finite([i \in 1..SignificandBits |->
                    IF i <= SignificandBits + x.e THEN x.m[i] ELSE 0], x.e)

\* x === n for a double x and an integer literal n (NaN equals nothing)
StrictEquals(x, n) == x.cls # "nan" /\ x = FromInt(n)

(* --------------------------- the probe's output ------------------------ *)

\* a JSON value as JavaScript sees it after JSON.parse; a missing property
\* reads as undefined
Undefined == [t |-> "undefined", n |-> 0, s |-> ""]
Null == [t |-> "null", n |-> 0, s |-> ""]
Num(n) == [t |-> "number", n |-> n, s |-> ""]
Str(s) == [t |-> "string", n |-> 0, s |-> s]

Digits == "0123456789"

RECURSIVE ParseDigits(_, _)
\* the value of a string of decimal digits read after acc, NotANumber when
\* a character is no digit
ParseDigits(str, acc) ==
    IF str = "" THEN acc
    ELSE LET d == IndexOf(Digits, SubSeq(str, 1, 1), 1)
         IN  IF d = 0 THEN NotANumber
             ELSE ParseDigits(SubSeq(str, 2, Len(str)), acc * 10 + (d - 1))

\* ToNumber, which the operator / applies to its operands
ToNumber(v) ==
    CASE v.t = "undefined" -> NotANumber
      [] v.t = "null" -> 0
      [] v.t = "number" -> v.n
      [] v.t = "string" -> ParseDigits(v.s, 0)

\* what ffprobe wrote to its standard output: text JSON.parse rejects, or a
\* document that may hold a streams array of objects
Garbage == [parses |-> FALSE, hasStreams |-> FALSE, streams |-> <<>>]
NoStreamsKey == [parses |-> TRUE, hasStreams |-> FALSE, streams |-> <<>>]
Streams(ss) == [parses |-> TRUE, hasStreams |-> TRUE, streams |-> ss]
Stream(width, height) == [width |-> width, height |-> height]

\* one run of ffprobe
ProbeRun(exitCode, stdoutText, stderrText) ==
    [exitCode |-> exitCode, stdoutText |-> stdoutText, stderrText |-> stderrText]

\* how an awaited call completes: with a value, or by throwing
Value(v) == [type |-> "value", name |-> v, msg |-> "", body |-> NoVideo]

\* a landscape test that truncates 16:9 to one decimal place
IsLandscapeTenths(ratio) == StrictEquals(MathFloor(Multiply(ratio, 10)), 17)

\* Math.floor(ratio * 9) === 16, the test that is made first
IsLandscape(ratio) == StrictEquals(MathFloor(Multiply(ratio, 9)), 16)

\* Math.floor(ratio * 16) === 9
IsPortrait(ratio) == StrictEquals(MathFloor(Multiply(ratio, 16)), 9)

\* getVideoAspectRatio once ffprobe has exited
getVideoAspectRatio(run) ==
    IF run.exitCode # 0 THEN Throw("Error", "ffprobe error: " \o run.stderrText)
    ELSE IF ~run.stdoutText.parses THEN Throw("SyntaxError", "JSON Parse error")
    ELSE IF ~run.stdoutText.hasStreams
         THEN Throw("TypeError", "undefined is not an object (evaluating 'result.streams[0]')")
    ELSE IF run.stdoutText.streams = <<>>
         THEN Throw("TypeError", "undefined is not an object (evaluating 'result.streams[0].width')")
    ELSE LET width == run.stdoutText.streams[1].width
             height == run.stdoutText.streams[1].height
             ratio == Divide(ToNumber(width), ToNumber(height))
         IN  IF IsLandscape(ratio) THEN Value("landscape")
             ELSE IF IsPortrait(ratio) THEN Value("portrait")
             ELSE Value("other")

(* -------------------------------- stores ------------------------------- *)

\* a store maps names to contents: the files under /tmp, the objects of the
\* bucket, the rows of the videos table
Empty == [k \in {} |-> NoVideo]
Put(store, key, value) ==
    [k \in DOMAIN store \cup {key} |-> IF k = key THEN value ELSE store[k]]
Remove(store, key) == [k \in DOMAIN store \ {key} |-> store[k]]

\* getVideo(cfg.db, videoId)
getVideo(rows, videoId) == IF videoId \in DOMAIN rows THEN rows[videoId] ELSE NoVideo

\* updateVideo(cfg.db, video): the row of video.id takes every column of video
updateVideo(rows, row) == Put(rows, row.id, row)

(* ------------------------- the handler's decisions ---------------------- *)

\* an authorization that accepts any authenticated user
AuthorizeAnyUser(rows, videoId, auth) ==
    IF videoId = "" THEN Throw("BadRequestError", "Invalid video ID")
    ELSE IF auth = BadToken THEN Throw("UserNotAuthenticatedError", "Invalid token")
    ELSE IF getVideo(rows, videoId) = NoVideo
         THEN Throw("NotFoundError", "Couldn't find video")
    ELSE Running

\* steps 2 to 4: the path parameter, the token, the row and its owner
Authorize(rows, videoId, auth) ==
    IF videoId = "" THEN Throw("BadRequestError", "Invalid video ID")
    ELSE IF auth = BadToken THEN Throw("UserNotAuthenticatedError", "Invalid token")
    ELSE IF getVideo(rows, videoId) = NoVideo
         THEN Throw("NotFoundError", "Couldn't find video")
    ELSE IF getVideo(rows, videoId).userID # auth
         THEN Throw("UserForbiddenError", "Not authorized to update this video")
    ELSE Running

\* a ceiling that is itself refused
ExceedsUploadLimitInclusive(size) == size >= MAX_UPLOAD_SIZE

\* step 6: file.size > MAX_UPLOAD_SIZE
ExceedsUploadLimit(size) == size > MAX_UPLOAD_SIZE

\* a validation that leaves the media type to the later stages
ValidateSizeOnly(f) ==
    IF f = NoFile THEN Throw("BadRequestError", "Video file missing")
    ELSE IF ExceedsUploadLimit(f.size)
         THEN Throw("BadRequestError", "Video file exceeds the maximum allowed size of 1GB")
    ELSE Running

\* steps 5 to 7: the form's file, its size, its media type
Validate(f) ==
    IF f = NoFile THEN Throw("BadRequestError", "Video file missing")
    ELSE IF ExceedsUploadLimit(f.size)
         THEN Throw("BadRequestError", "Video file exceeds the maximum allowed size of 1GB")
    ELSE IF f.type # "video/mp4"
         THEN Throw("BadRequestError", "Invalid file type. Only MP4 videos are supported")
    ELSE Running

\* a temp name that is not drawn at random
TempFilePathFixed(serial) == "/tmp/video-upload.mp4"

\* step 8: `/tmp/video-${randomBytes(16).toString('hex')}.mp4`
TempFilePath(serial) == "/tmp/video-" \o toStringHex(randomBytes(16, serial)) \o ".mp4"

\* processVideoForFastStart: `${inputFilePath}.processed.mp4`
ProcessedFilePath(inputFilePath) == inputFilePath \o ".processed.mp4"

\* a key without the category prefix
FileKeyWithoutCategory(ratio, serial, mediaType) ==
    toStringHex(randomBytes(32, serial)) \o mediaTypeToExt(mediaType)

\* step 11: `${aspectRatio}/${randomBytes(32).toString('hex')}${mediaTypeToExt(mediaType)}`
FileKey(ratio, serial, mediaType) ==
    ratio \o "/" \o toStringHex(randomBytes(32, serial)) \o mediaTypeToExt(mediaType)

\* a path-style address of the same object
VideoURLPathStyle(key) ==
    "https://s3." \o cfg.s3Region \o ".amazonaws.com/" \o cfg.s3Bucket \o "/" \o key

\* step 12: `https://${cfg.s3Bucket}.s3.${cfg.s3Region}.amazonaws.com/${fileKey}`
VideoURL(key) ==
    "https://" \o cfg.s3Bucket \o ".s3." \o cfg.s3Region \o ".amazonaws.com/" \o key

\* the first path the finally block removes: tempFilePath
CleanupFirst(temp) == temp

\* the second path the finally block removes: `${tempFilePath}.processed`
CleanupSecond(temp) == temp \o ".processed"

\* Bun.file(path).delete() is unlink(2): it removes an existing file unless
\* the system refuses; for a missing path unlink fails with ENOENT, and a
\* runtime that tolerates a missing file resolves
UnlinkOutcomes(files, path) ==
    IF path \in DOMAIN files THEN {"ok", "EACCES"} ELSE {"ENOENT", "ok"}

(* -------------------------------- state --------------------------------- *)

VARIABLES
    db,                 \* the videos table: id -> row
    fs,                 \* the files under /tmp: path -> content
    s3,                 \* the bucket: key -> content
    pc,                 \* where each call of handlerUploadVideo stands
    userID,             \* its userID
    video,              \* its video object, as getVideo returned it
    file,               \* its form file
    tempFilePath,       \* its tempFilePath
    aspectRatio,        \* its aspectRatio
    processedFilePath,  \* its processedFilePath
    fileKey,            \* its fileKey
    pending,            \* how its try block completed, kept while finally runs
    response,           \* what the call gave its caller: a response or an error
    stages,             \* the stages it has invoked, in order
    unlinks,            \* the removals its finally block attempted, with outcomes
    dbCalls,            \* the calls of getVideo and updateVideo it made, in order
    videoThumbnails,    \* thumbnails.ts: the map videoId -> thumbnail
    thumb,              \* each call of handlerUploadThumbnail: position and locals
    readAhead,          \* whether the runtime empties a pipe nobody is reading
    spawned,            \* the function that spawned the tool
    toWrite,            \* what the tool has yet to write to each stream
    inPipe,             \* what each pipe holds
    exited,             \* whether the tool has exited
    drained,            \* the streams the spawning function has read to their end
    awaiting,           \* the await at which the spawning function stands
    run,                \* the ffprobe run handed to the classifier on its own
    classified          \* what the classifier made of run

vars == <<db, fs, s3, pc, userID, video, file, tempFilePath, aspectRatio,
          processedFilePath, fileKey, pending, response, stages, unlinks,
          dbCalls, videoThumbnails, thumb, readAhead, spawned, toWrite, inPipe,
          exited, drained, awaiting, run, classified>>

locals == <<userID, video, file, tempFilePath, aspectRatio, processedFilePath, fileKey>>
classifier == <<run, classified>>
thumbnails == <<videoThumbnails, thumb>>
handler == <<db, fs, s3, pc, locals, pending, response, stages, unlinks, dbCalls>>
plumbing == <<readAhead, spawned, toWrite, inPipe, exited, drained, awaiting>>

\* the rows the table holds when the server starts
InitialRows == Put(Empty, "v1", Video("v1", "alice", "", ""))

NoRun == ProbeRun(0, Garbage, "")

\* no call of S has begun, and the stores are as the server found them
Started(S) ==
    /\ db = InitialRows
    /\ fs = Empty
    /\ s3 = Empty
    /\ pc = [p \in S |-> "start"]
    /\ userID = [p \in S |-> ""]
    /\ video = [p \in S |-> NoVideo]
    /\ file = [p \in S |-> NoFile]
    /\ tempFilePath = [p \in S |-> ""]
    /\ aspectRatio = [p \in S |-> ""]
    /\ processedFilePath = [p \in S |-> ""]
    /\ fileKey = [p \in S |-> ""]
    /\ pending = [p \in S |-> Running]
    /\ response = [p \in S |-> Running]
    /\ stages = [p \in S |-> <<>>]
    /\ unlinks = [p \in S |-> <<>>]
    /\ dbCalls = [p \in S |-> <<>>]

\* the classifier is not run on its own
NoClassifier == run = NoRun /\ classified = Running

\* no thumbnail is stored and none is being uploaded
NoThumbnails == videoThumbnails = <<>> /\ thumb = <<>>

\* no tool is followed through its pipes
NoPlumbing ==
    /\ readAhead = FALSE
    /\ spawned = ""
    /\ toWrite = <<>>
    /\ inPipe = <<>>
    /\ exited = FALSE
    /\ drained = {}
    /\ awaiting = ""

Init == Started(Ingests) /\ NoClassifier /\ NoThumbnails /\ NoPlumbing

(* ----------------------- the runs of the external tools ----------------- *)

\* what ffprobe can report in a run of the handler
ProbeRuns ==
    {ProbeRun(1, Garbage, "moov atom not found"),
     ProbeRun(0, Streams(<<>>), ""),
     ProbeRun(0, Streams(<<Stream(Num(1920), Num(1080))>>), ""),
     ProbeRun(0, Streams(<<Stream(Num(1080), Num(1920))>>), ""),
     ProbeRun(0, Streams(<<Stream(Num(1000), Num(1000))>>), "")}

\* the runs of ffmpeg: it exits 0 having written the output, or exits with an
\* error having written nothing or a part of it
RemuxRuns ==
    {[exitCode |-> 0, wrote |-> TRUE, stderrText |-> ""],
     [exitCode |-> 1, wrote |-> FALSE, stderrText |-> "Invalid data found"],
     [exitCode |-> 1, wrote |-> TRUE, stderrText |-> "No space left on device"]}

(* ------------------------------- actions -------------------------------- *)

\* steps 2 to 4, up to `await req.formData()`
Begin(p) ==
    /\ pc[p] = "start"
    /\ \E videoId \in VideoIdParams, auth \in Users \cup {BadToken} :
        LET outcome == Authorize(db, videoId, auth)
        IN  /\ userID' = [userID EXCEPT ![p] = IF auth \in Users /\ videoId # "" THEN auth ELSE ""]
            /\ dbCalls' = [dbCalls EXCEPT ![p] =
                               IF auth \in Users /\ videoId # ""
                               THEN Append(@, "getVideo") ELSE @]
            /\ IF outcome.type = "throw"
               THEN /\ pc' = [pc EXCEPT ![p] = "done"]
                    /\ response' = [response EXCEPT ![p] = outcome]
                    /\ video' = video
               ELSE /\ pc' = [pc EXCEPT ![p] = "formData"]
                    /\ response' = response
                    /\ video' = [video EXCEPT ![p] = getVideo(db, videoId)]
    /\ UNCHANGED <<db, fs, s3, file, tempFilePath, aspectRatio, processedFilePath,
                   fileKey, pending, stages, unlinks, classifier, thumbnails, plumbing>>

\* steps 5 to 8, up to `await Bun.write(tempFilePath, file)`
FormData(p) ==
    /\ pc[p] = "formData"
    /\ \E f \in FormFiles :
        LET outcome == Validate(f)
        IN  /\ file' = [file EXCEPT ![p] = f]
            /\ IF outcome.type = "throw"
               THEN /\ pc' = [pc EXCEPT ![p] = "done"]
                    /\ response' = [response EXCEPT ![p] = outcome]
                    /\ UNCHANGED <<tempFilePath, stages>>
               ELSE /\ pc' = [pc EXCEPT ![p] = "write"]
                    /\ tempFilePath' = [tempFilePath EXCEPT ![p] = TempFilePath(TempSerial(p))]
                    /\ stages' = [stages EXCEPT ![p] = Append(@, "stage")]
                    /\ response' = response
    /\ UNCHANGED <<db, fs, s3, userID, video, aspectRatio, processedFilePath,
                   fileKey, pending, unlinks, dbCalls, classifier, thumbnails, plumbing>>

\* Bun.write settles; inside the try block, getVideoAspectRatio spawns ffprobe
\* and waits for its output and its exit
WriteDone(p) ==
    /\ pc[p] = "write"
    /\ \E written \in {"all", "part", "nothing"} :
        /\ fs' = CASE written = "all" -> Put(fs, tempFilePath[p], Content(p, "upload"))
                   [] written = "part" -> Put(fs, tempFilePath[p], Content(p, "partial upload"))
                   [] written = "nothing" -> fs
        /\ IF written = "all"
           THEN /\ pc' = [pc EXCEPT ![p] = "probe"]
                /\ stages' = [stages EXCEPT ![p] = Append(@, "classify")]
                /\ response' = response
           ELSE /\ pc' = [pc EXCEPT ![p] = "done"]
                /\ response' = [response EXCEPT ![p] = Throw("Error", "ENOSPC: write failed")]
                /\ stages' = stages
    /\ UNCHANGED <<db, s3, locals, pending, unlinks, dbCalls, classifier, thumbnails, plumbing>>

\* ffprobe has exited: steps 9 and 10, up to the wait for ffmpeg
ProbeDone(p) ==
    /\ pc[p] = "probe"
    /\ \E r \in ProbeRuns :
        LET result == getVideoAspectRatio(r)
        IN  IF result.type = "throw"
            THEN /\ pending' = [pending EXCEPT ![p] = result]
                 /\ pc' = [pc EXCEPT ![p] = "unlinkTemp"]
                 /\ UNCHANGED <<aspectRatio, processedFilePath, stages>>
            ELSE /\ aspectRatio' = [aspectRatio EXCEPT ![p] = result.name]
                 /\ processedFilePath' =
                        [processedFilePath EXCEPT ![p] = ProcessedFilePath(tempFilePath[p])]
                 /\ stages' = [stages EXCEPT ![p] = Append(@, "rewrite")]
                 /\ pc' = [pc EXCEPT ![p] = "remux"]
                 /\ pending' = pending
    /\ UNCHANGED <<db, fs, s3, userID, video, file, tempFilePath, fileKey,
                   response, unlinks, dbCalls, classifier, thumbnails, plumbing>>

\* a handler that falls back to what ffmpeg left behind when ffmpeg fails
RemuxDoneWithFallback(p) ==
    /\ pc[p] = "remux"
    /\ \E r \in RemuxRuns :
        /\ fs' = IF r.wrote
                 THEN Put(fs, processedFilePath[p],
                          Content(p, IF r.exitCode = 0 THEN "faststart" ELSE "partial faststart"))
                 ELSE fs
        /\ IF r.exitCode # 0 /\ ~r.wrote
           THEN /\ pending' = [pending EXCEPT ![p] =
                                   Throw("Error", "FFmpeg error: " \o r.stderrText)]
                /\ pc' = [pc EXCEPT ![p] = "unlinkTemp"]
                /\ UNCHANGED <<fileKey, stages>>
           ELSE /\ fileKey' = [fileKey EXCEPT ![p] =
                                   FileKey(aspectRatio[p], KeySerial(p), file[p].type)]
                /\ stages' = [stages EXCEPT ![p] = Append(@, "upload")]
                /\ pc' = [pc EXCEPT ![p] = "upload"]
                /\ pending' = pending
    /\ UNCHANGED <<db, s3, userID, video, file, tempFilePath, aspectRatio,
                   processedFilePath, response, unlinks, dbCalls, classifier, thumbnails, plumbing>>

\* ffmpeg has exited: the rest of processVideoForFastStart and step 11, up to
\* `await s3Client.file(fileKey).write(...)`
RemuxDone(p) ==
    /\ pc[p] = "remux"
    /\ \E r \in RemuxRuns :
        /\ fs' = IF r.wrote
                 THEN Put(fs, processedFilePath[p],
                          Content(p, IF r.exitCode = 0 THEN "faststart" ELSE "partial faststart"))
                 ELSE fs
        /\ IF r.exitCode # 0
           THEN /\ pending' = [pending EXCEPT ![p] =
                                   Throw("Error", "FFmpeg error: " \o r.stderrText)]
                /\ pc' = [pc EXCEPT ![p] = "unlinkTemp"]
                /\ UNCHANGED <<fileKey, stages>>
           ELSE /\ fileKey' = [fileKey EXCEPT ![p] =
                                   FileKey(aspectRatio[p], KeySerial(p), file[p].type)]
                /\ stages' = [stages EXCEPT ![p] = Append(@, "upload")]
                /\ pc' = [pc EXCEPT ![p] = "upload"]
                /\ pending' = pending
    /\ UNCHANGED <<db, s3, userID, video, file, tempFilePath, aspectRatio,
                   processedFilePath, response, unlinks, dbCalls, classifier, thumbnails, plumbing>>

\* a handler that records the address whether or not the upload succeeded
UploadDoneRecordingAnyway(p) ==
    /\ pc[p] = "upload"
    /\ \E uploaded \in BOOLEAN :
        LET updated == [video[p] EXCEPT !.videoURL = VideoURL(fileKey[p])]
        IN  /\ s3' = IF uploaded /\ processedFilePath[p] \in DOMAIN fs
                     THEN Put(s3, fileKey[p], fs[processedFilePath[p]])
                     ELSE s3
            /\ video' = [video EXCEPT ![p] = updated]
            /\ stages' = [stages EXCEPT ![p] = Append(@, "record")]
            /\ dbCalls' = [dbCalls EXCEPT ![p] = Append(@, "updateVideo")]
            /\ db' = updateVideo(db, updated)
            /\ pending' = [pending EXCEPT ![p] = Return("200", updated)]
    /\ pc' = [pc EXCEPT ![p] = "unlinkTemp"]
    /\ UNCHANGED <<fs, userID, file, tempFilePath, aspectRatio, processedFilePath,
                   fileKey, response, unlinks, classifier, thumbnails, plumbing>>

\* a handler that reads the row again before it writes it
UploadDoneRereading(p) ==
    /\ pc[p] = "upload"
    /\ \E uploaded \in BOOLEAN, saved \in BOOLEAN :
        IF uploaded /\ processedFilePath[p] \in DOMAIN fs
        THEN LET updated == [getVideo(db, video[p].id) EXCEPT !.videoURL = VideoURL(fileKey[p])]
             IN  /\ s3' = Put(s3, fileKey[p], fs[processedFilePath[p]])
                 /\ video' = [video EXCEPT ![p] = updated]
                 /\ stages' = [stages EXCEPT ![p] = Append(@, "record")]
                 /\ dbCalls' = [dbCalls EXCEPT ![p] = @ \o <<"getVideo", "updateVideo">>]
                 /\ IF saved
                    THEN /\ db' = updateVideo(db, updated)
                         /\ pending' = [pending EXCEPT ![p] = Return("200", updated)]
                    ELSE /\ db' = db
                         /\ pending' = [pending EXCEPT ![p] =
                                            Throw("SQLiteError", "database is locked")]
        ELSE /\ pending' = [pending EXCEPT ![p] = Throw("S3Error", "upload failed")]
             /\ UNCHANGED <<db, s3, video, stages, dbCalls>>
    /\ pc' = [pc EXCEPT ![p] = "unlinkTemp"]
    /\ UNCHANGED <<fs, userID, file, tempFilePath, aspectRatio, processedFilePath,
                   fileKey, response, unlinks, classifier, thumbnails, plumbing>>

\* the upload has settled: step 12 and the return, up to the first await of
\* the finally block
UploadDone(p) ==
    /\ pc[p] = "upload"
    /\ \E uploaded \in BOOLEAN, saved \in BOOLEAN :
        IF uploaded /\ processedFilePath[p] \in DOMAIN fs
        THEN LET updated == [video[p] EXCEPT !.videoURL = VideoURL(fileKey[p])]
             IN  /\ s3' = Put(s3, fileKey[p], fs[processedFilePath[p]])
                 /\ video' = [video EXCEPT ![p] = updated]
                 /\ stages' = [stages EXCEPT ![p] = Append(@, "record")]
                 /\ dbCalls' = [dbCalls EXCEPT ![p] = Append(@, "updateVideo")]
                 /\ IF saved
                    THEN /\ db' = updateVideo(db, updated)
                         /\ pending' = [pending EXCEPT ![p] = Return("200", updated)]
                    ELSE /\ db' = db
                         /\ pending' = [pending EXCEPT ![p] =
                                            Throw("SQLiteError", "database is locked")]
        ELSE /\ pending' = [pending EXCEPT ![p] = Throw("S3Error", "upload failed")]
             /\ UNCHANGED <<db, s3, video, stages, dbCalls>>
    /\ pc' = [pc EXCEPT ![p] = "unlinkTemp"]
    /\ UNCHANGED <<fs, userID, file, tempFilePath, aspectRatio, processedFilePath,
                   fileKey, response, unlinks, classifier, thumbnails, plumbing>>

\* one `await Bun.file(path).delete()` of the finally block has settled: the
\* file is gone, or the rejection leaves the block and is what the call throws
Unlink(p, path, then, outcomes) ==
    \E outcome \in outcomes :
        /\ unlinks' = [unlinks EXCEPT ![p] = Append(@, <<path, outcome>>)]
        /\ IF outcome = "ok"
           THEN /\ fs' = Remove(fs, path)
                /\ pc' = [pc EXCEPT ![p] = then]
                /\ response' = [response EXCEPT ![p] =
                                    IF then = "done" THEN pending[p] ELSE @]
           ELSE /\ fs' = fs
                /\ pc' = [pc EXCEPT ![p] = "done"]
                /\ response' = [response EXCEPT ![p] =
                                    Throw("Error", outcome \o ": " \o path)]

\* `await Bun.file(tempFilePath).delete()`
UnlinkTemp(p) ==
    /\ pc[p] = "unlinkTemp"
    /\ Unlink(p, CleanupFirst(tempFilePath[p]), "unlinkProcessed",
              UnlinkOutcomes(fs, CleanupFirst(tempFilePath[p])))
    /\ UNCHANGED <<db, s3, locals, pending, stages, dbCalls, classifier, thumbnails, plumbing>>

\* `await Bun.file(`${tempFilePath}.processed`).delete()`, then the call
\* completes as its try block did
UnlinkProcessed(p) ==
    /\ pc[p] = "unlinkProcessed"
    /\ Unlink(p, CleanupSecond(tempFilePath[p]), "done",
              UnlinkOutcomes(fs, CleanupSecond(tempFilePath[p])))
    /\ UNCHANGED <<db, s3, locals, pending, stages, dbCalls, classifier, thumbnails, plumbing>>

Next ==
    \E p \in Ingests :
        \/ Begin(p)
        \/ FormData(p)
        \/ WriteDone(p)
        \/ ProbeDone(p)
        \/ RemuxDone(p)
        \/ UploadDone(p)
        \/ UnlinkTemp(p)
        \/ UnlinkProcessed(p)

Spec == Init /\ [][Next]_vars

(* --------------------------- overlapping calls -------------------------- *)

\* number of calls of handlerUploadVideo that overlap at their awaits
NumConcurrent == 2

Concurrent == 1..NumConcurrent

ConcurrentInit == Started(Concurrent) /\ NoClassifier /\ NoThumbnails /\ NoPlumbing

ConcurrentNext ==
    \E p \in Concurrent :
        \/ Begin(p)
        \/ FormData(p)
        \/ WriteDone(p)
        \/ ProbeDone(p)
        \/ RemuxDone(p)
        \/ UploadDone(p)
        \/ UnlinkTemp(p)
        \/ UnlinkProcessed(p)

ConcurrentSpec == ConcurrentInit /\ [][ConcurrentNext]_vars

(* ------------------------- handlerUploadThumbnail ----------------------- *)

\* number of calls of handlerUploadThumbnail, which overlap with the calls
\* of handlerUploadVideo at their awaits
NumThumbs == 1

Thumbs == 1..NumThumbs

\* thumbnails.ts: MAX_UPLOAD_SIZE = 10 * 1024 * 1024
THUMBNAIL_MAX_UPLOAD_SIZE == 10 * 1024 * 1024

ThumbFiles ==
    {NoFile,
     [size |-> 1024, type |-> "image/png"],
     [size |-> THUMBNAIL_MAX_UPLOAD_SIZE + 1, type |-> "image/png"]}

\* the Thumbnail kept in the map: the bytes of upload t and its media type
Thumbnail(t, mediaType) == [data |-> t, mediaType |-> mediaType]

\* `http://localhost:${cfg.port}/api/thumbnails/${videoId}`
ThumbnailURL(videoId) == "http://localhost:" \o cfg.port \o "/api/thumbnails/" \o videoId

\* a call of handlerUploadThumbnail at pc with its locals
ThumbCall(at, videoId, user, f, resp) ==
    [pc |-> at, videoId |-> videoId, userID |-> user, file |-> f, response |-> resp]

ThumbInit ==
    /\ Started(Ingests)
    /\ NoClassifier
    /\ NoPlumbing
    /\ videoThumbnails = <<>>
    /\ thumb = [t \in Thumbs |-> ThumbCall("start", "", "", NoFile, Running)]

\* the path parameter and the token, up to `await req.formData()`
ThumbBegin(t) ==
    /\ thumb[t].pc = "start"
    /\ \E videoId \in VideoIdParams, auth \in Users \cup {BadToken} :
        thumb' = [thumb EXCEPT ![t] =
            IF videoId = ""
            THEN ThumbCall("done", "", "", NoFile, Throw("BadRequestError", "Invalid video ID"))
            ELSE IF auth = BadToken
            THEN ThumbCall("done", videoId, "", NoFile,
                           Throw("UserNotAuthenticatedError", "Invalid token"))
            ELSE ThumbCall("formData", videoId, auth, NoFile, Running)]
    /\ UNCHANGED <<handler, videoThumbnails, classifier, plumbing>>

\* the form's file and its size, up to `await file.arrayBuffer()`
ThumbFormData(t) ==
    /\ thumb[t].pc = "formData"
    /\ \E f \in ThumbFiles :
        thumb' = [thumb EXCEPT ![t] =
            IF f = NoFile
            THEN [@ EXCEPT !.pc = "done",
                           !.response = Throw("BadRequestError", "No thumbnail file provided")]
            ELSE IF f.size > THUMBNAIL_MAX_UPLOAD_SIZE
            THEN [@ EXCEPT !.pc = "done", !.file = f,
                           !.response = Throw("BadRequestError", "Thumbnail file is too large")]
            ELSE [@ EXCEPT !.pc = "arrayBuffer", !.file = f]]
    /\ UNCHANGED <<handler, videoThumbnails, classifier, plumbing>>

\* the bytes are read: the row is fetched, the thumbnail stored in the map,
\* the row written with its thumbnailURL, and the row returned
ThumbStore(t) ==
    /\ thumb[t].pc = "arrayBuffer"
    /\ LET row == getVideo(db, thumb[t].videoId)
           updated == [row EXCEPT !.thumbnailURL = ThumbnailURL(thumb[t].videoId)]
       IN  IF row = NoVideo
           THEN /\ thumb' = [thumb EXCEPT ![t].pc = "done",
                                          ![t].response = NotFound]
                /\ UNCHANGED <<db, videoThumbnails>>
           ELSE /\ videoThumbnails' =
                       Put(videoThumbnails, thumb[t].videoId, Thumbnail(t, thumb[t].file.type))
                /\ db' = updateVideo(db, updated)
                /\ thumb' = [thumb EXCEPT ![t].pc = "done",
                                          ![t].response = Return("200", updated)]
    /\ UNCHANGED <<fs, s3, pc, locals, pending, response, stages, unlinks, dbCalls,
                   classifier, plumbing>>

ThumbNext ==
    \/ \E p \in Ingests :
           \/ Begin(p)
           \/ FormData(p)
           \/ WriteDone(p)
           \/ ProbeDone(p)
           \/ RemuxDone(p)
           \/ UploadDone(p)
           \/ UnlinkTemp(p)
           \/ UnlinkProcessed(p)
    \/ \E t \in Thumbs :
           \/ ThumbBegin(t)
           \/ ThumbFormData(t)
           \/ ThumbStore(t)

ThumbSpec == ThumbInit /\ [][ThumbNext]_vars

(* ---------------------- a spawned tool and its pipes -------------------- *)

\* bytes a pipe holds before the writer blocks
PipeCapacity == 2

\* the most a tool writes to one stream
MaxWrite == 3

StreamNames == {"stdout", "stderr"}

\* the awaits of the function after Bun.spawn, in order: getVideoAspectRatio
\* reads stdout, then stderr, then waits for the exit; processVideoForFastStart
\* reads stderr, then waits for the exit
Awaits(fn) ==
    IF fn = "getVideoAspectRatio" THEN <<"stdout", "stderr", "exited">>
    ELSE <<"stderr", "exited">>

\* the streams of the tool that are pipes: both functions ask for stderr,
\* getVideoAspectRatio asks for stdout, and Bun.spawn pipes stdout by default
Piped(fn) == StreamNames

\* the await that follows the one at which the function stands
NextAwait(fn, at) ==
    LET i == CHOOSE k \in 1..Len(Awaits(fn)) : Awaits(fn)[k] = at
    IN  IF i < Len(Awaits(fn)) THEN Awaits(fn)[i + 1] ELSE "finished"

\* how the function completes once the tool has exited
Completion(fn, r) ==
    IF fn = "getVideoAspectRatio" THEN getVideoAspectRatio(r)
    ELSE IF r.exitCode # 0 THEN Throw("Error", "FFmpeg error: " \o r.stderrText)
    ELSE Value("processedFilePath")

PipeRuns(fn) ==
    IF fn = "getVideoAspectRatio"
    THEN {ProbeRun(0, Streams(<<Stream(Num(1920), Num(1080))>>), ""),
          ProbeRun(1, Garbage, "moov atom not found")}
    ELSE {ProbeRun(0, Garbage, ""), ProbeRun(1, Garbage, "Invalid data found")}

PipeInit ==
    /\ Started(Ingests)
    /\ NoThumbnails
    /\ readAhead \in BOOLEAN
    /\ spawned \in {"getVideoAspectRatio", "processVideoForFastStart"}
    /\ run \in PipeRuns(spawned)
    /\ classified = Running
    /\ toWrite \in [StreamNames -> 0..MaxWrite]
    /\ inPipe = [st \in StreamNames |-> 0]
    /\ exited = FALSE
    /\ drained = {}
    /\ awaiting = Awaits(spawned)[1]

\* the tool writes one more byte to a stream; a full pipe makes it wait
ToolWrite(st) ==
    /\ ~exited /\ toWrite[st] > 0
    /\ st \in Piped(spawned) => inPipe[st] < PipeCapacity
    /\ toWrite' = [toWrite EXCEPT ![st] = @ - 1]
    /\ inPipe' = IF st \in Piped(spawned) THEN [inPipe EXCEPT ![st] = @ + 1] ELSE inPipe
    /\ UNCHANGED <<handler, thumbnails, classifier, readAhead, spawned, exited, drained, awaiting>>

\* the tool has written all it had and exits, which closes its ends
ToolExit ==
    /\ ~exited /\ \A st \in StreamNames : toWrite[st] = 0
    /\ exited' = TRUE
    /\ UNCHANGED <<handler, thumbnails, classifier, readAhead, spawned, toWrite, inPipe, drained, awaiting>>

\* the runtime takes a byte out of a pipe into its own buffer
RuntimeDrain(st) ==
    /\ readAhead /\ inPipe[st] > 0
    /\ inPipe' = [inPipe EXCEPT ![st] = @ - 1]
    /\ UNCHANGED <<handler, thumbnails, classifier, readAhead, spawned, toWrite, exited, drained, awaiting>>

\* `await new Response(proc.stdout).text()`, and the same of stderr: the
\* function takes a byte of the stream it is reading
Read(st) ==
    /\ awaiting = st /\ inPipe[st] > 0
    /\ inPipe' = [inPipe EXCEPT ![st] = @ - 1]
    /\ UNCHANGED <<handler, thumbnails, classifier, readAhead, spawned, toWrite, exited, drained, awaiting>>

\* the stream the function is reading has ended: text() resolves
EndOfStream(st) ==
    /\ awaiting = st /\ inPipe[st] = 0 /\ exited
    /\ drained' = drained \cup {st}
    /\ awaiting' = NextAwait(spawned, st)
    /\ UNCHANGED <<handler, thumbnails, run, classified, readAhead, spawned, toWrite, inPipe, exited>>

\* `await proc.exited` resolves and the function completes
Exited ==
    /\ awaiting = "exited" /\ exited
    /\ awaiting' = NextAwait(spawned, "exited")
    /\ classified' = Completion(spawned, run)
    /\ UNCHANGED <<handler, thumbnails, run, readAhead, spawned, toWrite, inPipe, exited, drained>>

PipeNext ==
    \/ \E st \in StreamNames : ToolWrite(st)
    \/ ToolExit
    \/ \E st \in StreamNames : RuntimeDrain(st)
    \/ \E st \in StreamNames : Read(st)
    \/ \E st \in StreamNames : EndOfStream(st)
    \/ Exited

PipeSpec == PipeInit /\ [][PipeNext]_vars

(* ---------------------- the classifier on its own ----------------------- *)

\* widths and heights up to MaxDimension, and the sizes of the usual frames
MaxDimension == 40

Dimensions == 0..MaxDimension \cup {1000, 1080, 1920}

\* values a width or a height can have besides a number
OddValues == {Undefined, Null, Str("1920"), Str("1080"), Str("abc"), Str("")}

ClassifierRuns ==
    {ProbeRun(0, Streams(<<Stream(Num(w), Num(h))>>), "") : w \in Dimensions, h \in Dimensions}
    \cup {ProbeRun(0, Streams(<<Stream(a, b)>>), "") :
              a \in OddValues \cup {Num(1920)}, b \in OddValues \cup {Num(1080)}}
    \cup {ProbeRun(0, Streams(<<Stream(Num(9), Num(16)), Stream(Num(16), Num(9))>>), ""),
          ProbeRun(0, Streams(<<>>), ""),
          ProbeRun(0, NoStreamsKey, ""),
          ProbeRun(0, Garbage, ""),
          ProbeRun(1, Garbage, "moov atom not found"),
          ProbeRun(1, Streams(<<Stream(Num(16), Num(9))>>), "Invalid data found")}

ClassifierInit ==
    /\ Started(Ingests)
    /\ run \in ClassifierRuns
    /\ classified = Running
    /\ NoThumbnails
    /\ NoPlumbing

\* getVideoAspectRatio is applied to the run
Classify ==
    /\ classified = Running
    /\ classified' = getVideoAspectRatio(run)
    /\ UNCHANGED <<db, fs, s3, pc, locals, pending, response, stages, unlinks, dbCalls,
                   thumbnails, plumbing, run>>

ClassifierSpec == ClassifierInit /\ [][Classify]_vars

(* ------------------------ vocabulary of the claims ---------------------- *)

Categories == {"landscape", "portrait", "other"}

Pipeline == <<"stage", "classify", "rewrite", "upload", "record">>

Range(s) == {s[i] : i \in 1..Len(s)}

IsPrefix(s, t) == Len(s) <= Len(t) /\ \A i \in 1..Len(s) : s[i] = t[i]

\* the files under /tmp that hold bytes written for ingest p
FilesOf(p) == {path \in DOMAIN fs : fs[path].origin = p}

\* the try block of ingest p was entered: the staged file was written in full
Staged(p) == Len(stages[p]) >= 2

\* the system refused none of the removals ingest p attempted
NoRemovalRefused(p) == \A i \in 1..Len(unlinks[p]) : unlinks[p][i][2] # "EACCES"

TooLarge == Throw("BadRequestError", "Video file exceeds the maximum allowed size of 1GB")
BadType == Throw("BadRequestError", "Invalid file type. Only MP4 videos are supported")

IsHex(str) == \A i \in 1..Len(str) : IndexOf(HexDigits, SubSeq(str, i, i), 1) > 0

\* ^(landscape|portrait|other)/[0-9a-f]{64}\.mp4$
MatchesKeyPattern(key) ==
    LET n == Len(key)
    IN  /\ n >= 69
        /\ SubSeq(key, n - 3, n) = ".mp4"
        /\ IsHex(SubSeq(key, n - 67, n - 4))
        /\ SubSeq(key, n - 68, n - 68) = "/"
        /\ SubSeq(key, 1, n - 69) \in Categories

KeyCategory(key) == SubSeq(key, 1, Len(key) - 69)

(* -------------------------------- claims -------------------------------- *)

\* C1: when handlerUploadVideo returns after it wrote the staged temp file,
\* no temp file of that ingest exists any more, neither the staged file nor
\* the file processVideoForFastStart wrote.  Stated for the calls in which
\* the system refused no removal, so that what is left behind is left by the
\* handler's own cleanup.
C1_NoTempFileAtReturn ==
    \A p \in Ingests :
        pc[p] = "done" /\ Staged(p) /\ NoRemovalRefused(p) => FilesOf(p) = {}

\* C2: what the caller observes is how the try block completed; an error of
\* a removal in the finally block never replaces it.
C2_CleanupNeverReplacesOutcome ==
    \A p \in Ingests :
        pc[p] = "done" /\ pending[p] # Running => response[p] = pending[p]

\* C3: the video record changes only in the step in which the upload of
\* this ingest's object has just succeeded, and then to this ingest's row;
\* so while no ingest got past its upload (each was rejected, failed at
\* classify, rewrite or upload, or is still on its way) the record is the
\* one the ingests found.
C3_RecordOnlyAfterUpload ==
    /\ []((\A p \in Ingests : "record" \notin Range(stages[p])) => db = InitialRows)
    /\ [][db' # db =>
             \E p \in Ingests :
                 /\ pc[p] = "upload" /\ pc'[p] = "unlinkTemp"
                 /\ fileKey[p] \notin DOMAIN s3
                 /\ fileKey[p] \in DOMAIN s3' /\ s3'[fileKey[p]].origin = p
                 /\ db' = updateVideo(db, video'[p])]_vars

\* an upload has failed, the call has returned, and the record is untouched
C3_Witness ==
    \E p \in Ingests :
        /\ pc[p] = "done" /\ pending[p] = Throw("S3Error", "upload failed")
        /\ video[p] # NoVideo /\ db[video[p].id].videoURL = ""

\* C4: an upload whose media type is not video/mp4, or whose size is over the
\* ceiling, is rejected with the matching error and at no point of that call
\* does a temp file of it exist: no path was chosen, no stage was invoked;
\* and no call has a temp file before its validation has passed.
C4_RejectedBeforeStaging ==
    \A p \in Ingests :
        /\ file[p] # NoFile /\ (file[p].type # "video/mp4" \/ file[p].size > MAX_UPLOAD_SIZE)
              => /\ pc[p] = "done" /\ response[p] \in {TooLarge, BadType}
                 /\ tempFilePath[p] = "" /\ stages[p] = <<>> /\ FilesOf(p) = {}
        /\ response[p] \in {TooLarge, BadType}
              => tempFilePath[p] = "" /\ stages[p] = <<>> /\ FilesOf(p) = {}
        /\ pc[p] \in {"start", "formData"} => FilesOf(p) = {}

\* a file of the wrong media type within the ceiling has been rejected
C4_Witness ==
    \E p \in Ingests :
        /\ file[p].type = "video/webm" /\ file[p].size <= MAX_UPLOAD_SIZE
        /\ pc[p] = "done" /\ response[p] = BadType /\ FilesOf(p) = {}

\* C5: a file is rejected for its size exactly when its size is over
\* 1073741824 bytes; a file of exactly that size is accepted.
C5_CeilingInclusive ==
    \A p \in Ingests :
        file[p] # NoFile => (response[p] = TooLarge <=> file[p].size > 1073741824)

\* a video/mp4 file of exactly 1073741824 bytes is being staged
C5_Witness ==
    \E p \in Ingests :
        /\ file[p].size = 1073741824 /\ file[p].type = "video/mp4"
        /\ pc[p] = "write" /\ response[p] = Running

\* C6: the stages are invoked in the order stage, classify, rewrite, upload,
\* record, each at most once and each only after the one before it
\* succeeded; after a failure none follows; only a completely rewritten file
\* is ever uploaded.
C6_StagesInOrder ==
    \A p \in Ingests :
        /\ IsPrefix(stages[p], Pipeline)
        /\ response[p] = Throw("Error", "ENOSPC: write failed") => stages[p] = <<"stage">>
        /\ pending[p].name \in {"TypeError", "SyntaxError"} => stages[p] = SubSeq(Pipeline, 1, 2)
        /\ pending[p].type = "throw" /\ Len(pending[p].msg) >= 7
              /\ SubSeq(pending[p].msg, 1, 7) = "ffprobe" => stages[p] = SubSeq(Pipeline, 1, 2)
        /\ pending[p].type = "throw" /\ Len(pending[p].msg) >= 6
              /\ SubSeq(pending[p].msg, 1, 6) = "FFmpeg" => stages[p] = SubSeq(Pipeline, 1, 3)
        /\ pending[p].name = "S3Error" => stages[p] = SubSeq(Pipeline, 1, 4)
        /\ "rewrite" \in Range(stages[p]) => aspectRatio[p] \in Categories
        /\ "record" \in Range(stages[p]) =>
              fileKey[p] \in DOMAIN s3 /\ s3[fileKey[p]] = Content(p, "faststart")
        /\ \A key \in DOMAIN s3 : s3[key].form = "faststart"

\* ffmpeg failed after it had written output, and the call has returned
\* without an upload
C6_Witness ==
    \E p \in Ingests :
        /\ pc[p] = "done"
        /\ pending[p] = Throw("Error", "FFmpeg error: No space left on device")
        /\ stages[p] = <<"stage", "classify", "rewrite">>

\* the category of a frame of w by h pixels, in exact arithmetic:
\* floor(9w/h) = 16, else floor(16w/h) = 9, else other
ExactCategory(w, h) ==
    IF 16 * h <= 9 * w /\ 9 * w < 17 * h THEN "landscape"
    ELSE IF 9 * h <= 16 * w /\ 16 * w < 10 * h THEN "portrait"
    ELSE "other"

\* the probe exited 0 and its first stream has a number for width and height
WellFormed(r) ==
    /\ r.exitCode = 0 /\ r.stdoutText.parses /\ r.stdoutText.hasStreams
    /\ r.stdoutText.streams # <<>>
    /\ r.stdoutText.streams[1].width.t = "number"
    /\ r.stdoutText.streams[1].height.t = "number"

\* the probe exited 0 with a document that has no stream, or whose first
\* stream has no number for its width or its height
Malformed(r) ==
    /\ r.exitCode = 0 /\ r.stdoutText.parses
    /\ ~WellFormed(r)

\* C7: for the width w and height h > 0 of the first stream,
\* getVideoAspectRatio returns landscape when floor((w/h)*9) = 16, otherwise
\* portrait when floor((w/h)*16) = 9, otherwise other; 1920x1080 is
\* landscape, 1080x1920 portrait, 1000x1000 other.
C7_CategoryOfRatio ==
    classified # Running /\ WellFormed(run) /\ run.stdoutText.streams[1].height.n > 0 =>
        LET w == run.stdoutText.streams[1].width.n
            h == run.stdoutText.streams[1].height.n
        IN  /\ classified = Value(ExactCategory(w, h))
            /\ w = 1920 /\ h = 1080 => classified = Value("landscape")
            /\ w = 1080 /\ h = 1920 => classified = Value("portrait")
            /\ w = 1000 /\ h = 1000 => classified = Value("other")

\* a 1920x1080 stream has been classified as landscape
C7_Witness ==
    /\ run.stdoutText.streams = <<Stream(Num(1920), Num(1080))>>
    /\ run.exitCode = 0
    /\ classified = Value("landscape")

\* C8: when the probe exits 0 and its output has no stream, or the first
\* stream's width or height is absent or not a number, getVideoAspectRatio
\* throws and returns no category.
C8_FailsOnMalformedOutput ==
    classified # Running /\ Malformed(run) => classified.type = "throw"

C10_AddressNamesObject ==
    /\ \A p \in Ingests :
          pending[p].type = "return" =>
              /\ pending[p].body.videoURL =
                     "https://tubely.s3.us-east-1.amazonaws.com/" \o fileKey[p]
              /\ db[pending[p].body.id].videoURL \in
                     {pending[q].body.videoURL : q \in Ingests}
              /\ fileKey[p] \in DOMAIN s3 /\ s3[fileKey[p]].origin = p
    /\ \A id \in DOMAIN db :
          db[id].videoURL # "" =>
              \E p \in Ingests :
                  /\ "record" \in Range(stages[p])
                  /\ db[id].videoURL =
                         "https://tubely.s3.us-east-1.amazonaws.com/" \o fileKey[p]
                  /\ fileKey[p] \in DOMAIN s3 /\ s3[fileKey[p]].origin = p

\* an ingest has returned its row, and the record holds the address of the
\* object it wrote
C10_Witness ==
    \E p \in Ingests :
        /\ pc[p] = "done" /\ response[p].type = "return"
        /\ db[response[p].body.id].videoURL =
               "https://tubely.s3.us-east-1.amazonaws.com/" \o fileKey[p]
        /\ fileKey[p] \in DOMAIN s3

\* the stage an error names: the probe and the remux tag their errors, the
\* storage client throws its own
StageOfError(e) ==
    IF e.type # "throw" THEN "none"
    ELSE IF e.name = "S3Error" THEN "upload"
    ELSE IF Len(e.msg) >= 15 /\ SubSeq(e.msg, 1, 15) = "ffprobe error: " THEN "classify"
    ELSE IF Len(e.msg) >= 14 /\ SubSeq(e.msg, 1, 14) = "FFmpeg error: " THEN "rewrite"
    ELSE "none"

\* the try block of ingest p ended with the failure of a tool or of the upload
StageFailed(p) ==
    pending[p].type = "throw" /\ StageOfError(pending[p]) # "none"

\* C11: an ingest whose probe, remux or upload failed returns an error that
\* names the first stage that failed, which is the last one invoked, and
\* carries its cause (the tool's stderr).
C11_ErrorNamesFailedStage ==
    \A p \in Ingests :
        pc[p] = "done" /\ StageFailed(p) =>
            /\ StageOfError(response[p]) = stages[p][Len(stages[p])]
            /\ response[p].msg = pending[p].msg

\* C12: a removal that finds its path already absent raises no error that
\* reaches the caller: the call completes as its try block did.
C12_AbsentFileRaisesNothing ==
    \A p \in Ingests :
        pc[p] = "done" /\ pending[p] # Running
            /\ (\A i \in 1..Len(unlinks[p]) :
                    unlinks[p][i][2] # "ok" => unlinks[p][i][2] = "ENOENT")
        => response[p] = pending[p]

\* C16: the two removals are independent: when the try block was entered,
\* the removal of the rewritten file is attempted whether or not the removal
\* of the staged file failed.
C16_RemovalsIndependent ==
    \A p \in Ingests :
        pc[p] = "done" /\ Staged(p) =>
            /\ Len(unlinks[p]) = 2
            /\ unlinks[p][1][1] = tempFilePath[p]
            /\ unlinks[p][2][1] # tempFilePath[p]

\* C17: an ingest for a missing record or by a user who is not the record's
\* owner is rejected before the form is parsed and has created no temp
\* file, invoked no stage and uploaded no object; every ingest that got past
\* the rejection is by the owner of the row it read; and the record changes
\* only in a step of an ingest of its owner, and only in its videoURL.
C17_OnlyOwnerIngests ==
    /\ [](\A p \in Ingests :
            /\ response[p] \in {NotFound, Forbidden} =>
                  /\ pc[p] = "done" /\ file[p] = NoFile /\ video[p] = NoVideo
                  /\ tempFilePath[p] = "" /\ stages[p] = <<>> /\ unlinks[p] = <<>>
                  /\ FilesOf(p) = {} /\ fileKey[p] = ""
                  /\ \A key \in DOMAIN s3 : s3[key].origin # p
            /\ pc[p] # "start" /\ response[p].type # "throw" =>
                  video[p] # NoVideo /\ video[p].userID = userID[p]
            /\ video[p] # NoVideo => video[p].userID = userID[p])
    /\ [][\A id \in DOMAIN db :
              db'[id] # db[id] =>
                  \E p \in Ingests :
                      /\ pc[p] = "upload" /\ userID[p] = db[id].userID
                      /\ db'[id] = [db[id] EXCEPT !.videoURL = video'[p].videoURL]]_vars

\* the owner's video was requested by another user, who was refused
C17_Witness ==
    \E p \in Ingests :
        /\ userID[p] = "bob" /\ response[p] = Forbidden /\ pc[p] = "done"
        /\ db = InitialRows

\* how often call appears in the log calls
Count(calls, call) == Cardinality({i \in 1..Len(calls) : calls[i] = call})

\* C15: an ingest reads the record at most once and writes it at most once,
\* and the read comes before staging: between staging and the write there
\* is no read, so the calls it makes are none, the read, or the read
\* followed by the write.
C15_RecordReadOnceWrittenOnce ==
    \A p \in Ingests :
        /\ Count(dbCalls[p], "getVideo") <= 1
        /\ Count(dbCalls[p], "updateVideo") <= 1
        /\ dbCalls[p] \in {<<>>, <<"getVideo">>, <<"getVideo", "updateVideo">>}
        /\ stages[p] # <<>> /\ "record" \notin Range(stages[p]) => dbCalls[p] = <<"getVideo">>
        /\ "record" \in Range(stages[p]) <=> "updateVideo" \in Range(dbCalls[p])

\* an ingest has read the record, written it and returned
C15_Witness ==
    \E p \in Ingests :
        pc[p] = "done" /\ response[p].type = "return"
            /\ dbCalls[p] = <<"getVideo", "updateVideo">>

\* the paths ingest p works on: its staged file, the file the remux writes,
\* and the second path its finally block removes
OwnPaths(p) ==
    IF tempFilePath[p] = "" THEN {}
    ELSE {tempFilePath[p], ProcessedFilePath(tempFilePath[p]), CleanupSecond(tempFilePath[p])}

\* C14: with overlapping ingests, the paths of two ingests are disjoint,
\* every temp file lies at a path of the ingest that wrote it, an ingest
\* removes and uploads only files at its own paths, and every step that
\* creates, rewrites or removes a file is a step of the ingest it belongs to.
C14_TempFilesExclusive ==
    /\ [](\A p \in Concurrent :
            /\ \A q \in Concurrent \ {p} : OwnPaths(p) \cap OwnPaths(q) = {}
            /\ FilesOf(p) \subseteq OwnPaths(p)
            /\ \A i \in 1..Len(unlinks[p]) : unlinks[p][i][1] \in OwnPaths(p)
            /\ processedFilePath[p] # "" => processedFilePath[p] \in OwnPaths(p)
            /\ fileKey[p] \in DOMAIN s3 => s3[fileKey[p]].origin = p)
    /\ [][\A path \in DOMAIN fs \cup DOMAIN fs' :
              \/ path \in DOMAIN fs /\ path \in DOMAIN fs' /\ fs'[path] = fs[path]
              \/ \E p \in Concurrent :
                     /\ pc'[p] # pc[p] /\ path \in OwnPaths(p)
                     /\ path \in DOMAIN fs => fs[path].origin = p
                     /\ path \in DOMAIN fs' => fs'[path].origin = p]_vars

\* one ingest has removed its staged file while the staged file of another,
\* still being probed, is in place
C14_Witness ==
    \E p \in Concurrent, q \in Concurrent :
        /\ p # q
        /\ pc[p] = "unlinkProcessed" /\ tempFilePath[p] \notin DOMAIN fs
        /\ pc[q] = "probe" /\ tempFilePath[q] \in DOMAIN fs /\ fs[tempFilePath[q]].origin = q

\* C13: a function that spawned a tool has, when it completes, read every
\* pipe of the tool to its end; it is never left waiting for a stream while
\* the tool waits for room in another pipe; and it throws exactly when the
\* exit code is not 0.
C13_DrainsAndReturns ==
    /\ awaiting = "finished" =>
          /\ Piped(spawned) \subseteq drained
          /\ classified.type = "throw" <=> run.exitCode # 0
    /\ awaiting # "finished" => ENABLED PipeNext

\* C18: the write of a video ingest changes the videoURL alone: once a
\* thumbnail upload for a video has returned its row, the record of that
\* video keeps the thumbnailURL it stored, whatever an ingest writes later.
C18_ThumbnailURLKept ==
    \A t \in Thumbs :
        thumb[t].pc = "done" /\ thumb[t].response.type = "return" =>
            db[thumb[t].videoId].thumbnailURL = ThumbnailURL(thumb[t].videoId)

\* C19: a thumbnail upload by an authenticated user who does not own the
\* video changes neither the map of thumbnails nor the record.
C19_OnlyOwnerReplacesThumbnail ==
    \A t \in Thumbs :
        /\ thumb[t].userID # ""
        /\ getVideo(db, thumb[t].videoId) # NoVideo
        /\ getVideo(db, thumb[t].videoId).userID # thumb[t].userID
        => /\ thumb[t].response.type # "return"
           /\ \A id \in DOMAIN videoThumbnails : videoThumbnails[id].data # t
           /\ getVideo(db, thumb[t].videoId).thumbnailURL = ""

====
